---------------------------- MODULE Spec2Model ----------------------------
(***************************************************************************)
(* Rock-Paper-Scissors-Plus referee (best of three, one bomb per player).  *)
(*                                                                         *)
(* A Python str is modelled as the sequence of its characters, so that     *)
(* strip(), lower(), startswith() and the "in" substring test are computed *)
(* the way the interpreter computes them.  Characters outside ASCII are    *)
(* written by code point ("U+1F4A3").  A dict is a record (a function on   *)
(* its keys); Python's None is the value None below.                       *)
(***************************************************************************)
EXTENDS Integers, Sequences, FiniteSets, TLC

VARIABLES
    _data,        \* GameStateStore._data: session id -> state dict
    last,         \* the last call made: its name, arguments and outputs
    rounds        \* ghost: rounds consumed so far, by path

vars == <<_data, last, rounds>>

-----------------------------------------------------------------------------
(* String literals of the source *)

None == <<"None">>

rock == <<"r","o","c","k">>
paper == <<"p","a","p","e","r">>
scissors == <<"s","c","i","s","s","o","r","s">>
bomb == <<"b","o","m","b">>
user == <<"u","s","e","r">>
bot == <<"b","o","t">>
draw == <<"d","r","a","w">>
unknown == <<"u","n","k","n","o","w","n">>
none == <<"n","o","n","e">>
normal == <<"n","o","r","m","a","l">>
invalid == <<"i","n","v","a","l","i","d">>

-----------------------------------------------------------------------------
(* str methods *)

UPPERCASE == <<"A","B","C","D","E","F","G","H","I","J","K","L","M",
               "N","O","P","Q","R","S","T","U","V","W","X","Y","Z">>
LOWERCASE == <<"a","b","c","d","e","f","g","h","i","j","k","l","m",
               "n","o","p","q","r","s","t","u","v","w","x","y","z">>

WHITESPACE == {" ", "\t", "\n"}

lower_char(c) ==
    IF \E i \in 1..Len(UPPERCASE) : UPPERCASE[i] = c
    THEN LOWERCASE[CHOOSE i \in 1..Len(UPPERCASE) : UPPERCASE[i] = c]
    ELSE c

\* str.lower()
lower(s) == [i \in 1..Len(s) |-> lower_char(s[i])]

\* str.lstrip(chars)
RECURSIVE lstrip(_, _)
lstrip(s, chars) ==
    IF s # << >> /\ Head(s) \in chars THEN lstrip(Tail(s), chars) ELSE s

\* str.rstrip(chars)
RECURSIVE rstrip(_, _)
rstrip(s, chars) ==
    IF s # << >> /\ s[Len(s)] \in chars
    THEN rstrip(SubSeq(s, 1, Len(s) - 1), chars)
    ELSE s

\* str.strip()
strip(s) == rstrip(lstrip(s, WHITESPACE), WHITESPACE)

\* str.startswith(prefix)
startswith(s, prefix) ==
    Len(s) >= Len(prefix) /\ SubSeq(s, 1, Len(prefix)) = prefix

\* "sub in s"
contains(sub, s) ==
    \E i \in 0..(Len(s) - Len(sub)) : SubSeq(s, i + 1, i + Len(sub)) = sub

-----------------------------------------------------------------------------
(* helpers/intent_parser.py *)

\* The synonym table in insertion order: <<key, canonical move>>
MOVE_SYNONYMS ==
    << <<<<"r","o","c","k">>, rock>>,
       <<<<"s","t","o","n","e">>, rock>>,
       <<<<"b","o","u","l","d","e","r">>, rock>>,
       <<<<"f","i","s","t">>, rock>>,
       <<<<"r">>, rock>>,
       <<<<"U+1FAA8">>, rock>>,
       <<<<"p","a","p","e","r">>, paper>>,
       <<<<"s","h","e","e","t">>, paper>>,
       <<<<"p","a","g","e">>, paper>>,
       <<<<"w","r","a","p">>, paper>>,
       <<<<"p">>, paper>>,
       <<<<"U+1F4C4">>, paper>>,
       <<<<"U+1F4C3">>, paper>>,
       <<<<"s","c","i","s","s","o","r","s">>, scissors>>,
       <<<<"s","c","i","s","s","o","r">>, scissors>>,
       <<<<"c","u","t">>, scissors>>,
       <<<<"s","n","i","p">>, scissors>>,
       <<<<"s">>, scissors>>,
       <<<<"U+2702","U+FE0F">>, scissors>>,
       <<<<"U+2702">>, scissors>>,
       <<<<"b","o","m","b">>, bomb>>,
       <<<<"b","o","o","m">>, bomb>>,
       <<<<"e","x","p","l","o","d","e">>, bomb>>,
       <<<<"b","l","a","s","t">>, bomb>>,
       <<<<"n","u","k","e">>, bomb>>,
       <<<<"b">>, bomb>>,
       <<<<"U+1F4A3">>, bomb>>,
       <<<<"U+1F9E8">>, bomb>> >>

fillers ==
    << <<"i"," ","p","i","c","k"," ">>,
       <<"i"," ","c","h","o","o","s","e"," ">>,
       <<"i"," ","g","o"," ","w","i","t","h"," ">>,
       <<"i","'","l","l"," ","g","o"," ","w","i","t","h"," ">>,
       <<"m","y"," ","m","o","v","e"," ","i","s"," ">>,
       <<"l","e","t","'","s"," ","g","o"," ">>,
       <<"g","o","i","n","g"," ","w","i","t","h"," ">>,
       <<"i"," ","s","a","y"," ">>,
       <<"i"," ","w","a","n","t"," ">>,
       <<"g","i","v","e"," ","m","e"," ">>,
       <<"l","e","t","'","s"," ","d","o"," ">>,
       <<"i"," ","p","l","a","y"," ">> >>

keywords ==
    << <<"r","u","l","e","s">>,
       <<"h","e","l","p">>,
       <<"h","o","w">>,
       <<"w","h","a","t">>,
       <<"e","x","p","l","a","i","n">>,
       <<"?">> >>

Min(S) == CHOOSE x \in S : \A y \in S : x <= y

\* "for x in seq: if test(x): ...; break" stops at the least index that passes
first_filler(normalized) ==
    LET hits == {i \in 1..Len(fillers) : startswith(normalized, fillers[i])}
    IN  IF hits = {} THEN 0 ELSE Min(hits)

normalize_input(text) ==
    LET normalized == strip(lower(text))
        f == first_filler(normalized)
        unfilled == IF f # 0
                    THEN strip(SubSeq(normalized, Len(fillers[f]) + 1,
                                      Len(normalized)))
                    ELSE normalized
    IN  rstrip(unfilled, {"!", ".", ",", "?"})

\* extract_move_offline without its direct match: substring search alone
extract_move_offline_substring_only(user_input) ==
    LET normalized == normalize_input(user_input)
        part == {i \in 1..Len(MOVE_SYNONYMS) :
                     contains(MOVE_SYNONYMS[i][1], normalized)}
    IN  IF part # {} THEN MOVE_SYNONYMS[Min(part)][2]
        ELSE unknown

extract_move_offline(user_input) ==
    LET normalized == normalize_input(user_input)
        direct == {i \in 1..Len(MOVE_SYNONYMS) :
                     MOVE_SYNONYMS[i][1] = normalized}
        part == {i \in 1..Len(MOVE_SYNONYMS) :
                     contains(MOVE_SYNONYMS[i][1], normalized)}
    IN  IF direct # {} THEN MOVE_SYNONYMS[Min(direct)][2]
        ELSE IF part # {} THEN MOVE_SYNONYMS[Min(part)][2]
        ELSE unknown

is_rules_request(user_input) ==
    LET normalized == normalize_input(user_input)
    IN  \E i \in 1..Len(keywords) : contains(keywords[i], normalized)

-----------------------------------------------------------------------------
(* game_state.py *)

\* dict.get(key, default)
get(data, key, default) == IF key \in DOMAIN data THEN data[key] ELSE default

RoundResult(round_number, user_move, bot_move, winner) ==
    [round_number |-> round_number, user_move |-> user_move,
     bot_move |-> bot_move, winner |-> winner]

\* GameState(): the dataclass defaults
create_new_game ==
    [current_round |-> 1, user_score |-> 0, bot_score |-> 0,
     user_bomb_used |-> FALSE, bot_bomb_used |-> FALSE,
     round_history |-> << >>, game_over |-> FALSE, final_winner |-> None]

\* A to_dict that lists the history newest round first
to_dict_newest_first(self) ==
    [current_round |-> self.current_round,
     user_score |-> self.user_score,
     bot_score |-> self.bot_score,
     user_bomb_used |-> self.user_bomb_used,
     bot_bomb_used |-> self.bot_bomb_used,
     round_history |->
        [i \in 1..Len(self.round_history) |->
            self.round_history[Len(self.round_history) + 1 - i]],
     game_over |-> self.game_over,
     final_winner |-> self.final_winner]

\* GameState.to_dict
to_dict(self) ==
    [current_round |-> self.current_round,
     user_score |-> self.user_score,
     bot_score |-> self.bot_score,
     user_bomb_used |-> self.user_bomb_used,
     bot_bomb_used |-> self.bot_bomb_used,
     round_history |->
        [i \in 1..Len(self.round_history) |->
            [round_number |-> self.round_history[i].round_number,
             user_move |-> self.round_history[i].user_move,
             bot_move |-> self.round_history[i].bot_move,
             winner |-> self.round_history[i].winner]],
     game_over |-> self.game_over,
     final_winner |-> self.final_winner]

\* GameState.from_dict
from_dict(data) ==
    LET rh == get(data, "round_history", << >>)
        history == [i \in 1..Len(rh) |->
                      RoundResult(rh[i]["round_number"], rh[i]["user_move"],
                                  rh[i]["bot_move"], rh[i]["winner"])]
    IN  [current_round |-> get(data, "current_round", 1),
         user_score |-> get(data, "user_score", 0),
         bot_score |-> get(data, "bot_score", 0),
         user_bomb_used |-> get(data, "user_bomb_used", FALSE),
         bot_bomb_used |-> get(data, "bot_bomb_used", FALSE),
         round_history |-> history,
         game_over |-> get(data, "game_over", FALSE),
         final_winner |-> get(data, "final_winner", None)]

-----------------------------------------------------------------------------
(* tools/validate_move.py *)

VALID_MOVES == {rock, paper, scissors, bomb}

\* validate_move that tests the other player's bomb flag
validate_move_other_flag(move, player, game_state) ==
    LET state == from_dict(game_state)
        normalized == IF move = None THEN << >> ELSE lower(strip(move))
    IN  IF normalized \notin VALID_MOVES
        THEN [is_valid |-> FALSE, normalized_move |-> None,
              reason |-> "Invalid move. Must be one of: rock, paper, scissors, bomb."]
        ELSE IF normalized = bomb /\ player = user /\ state.bot_bomb_used
        THEN [is_valid |-> FALSE, normalized_move |-> None,
              reason |-> "Bomb already used. You can only use bomb once per game."]
        ELSE IF normalized = bomb /\ player = bot /\ state.user_bomb_used
        THEN [is_valid |-> FALSE, normalized_move |-> None,
              reason |-> "Bot has already used bomb this game."]
        ELSE [is_valid |-> TRUE, normalized_move |-> normalized,
              reason |-> "Valid move."]

\* validate_move without its rule 2 (bomb usage)
validate_move_no_bomb_rule(move, player, game_state) ==
    LET normalized == IF move = None THEN << >> ELSE lower(strip(move))
    IN  IF normalized \notin VALID_MOVES
        THEN [is_valid |-> FALSE, normalized_move |-> None,
              reason |-> "Invalid move. Must be one of: rock, paper, scissors, bomb."]
        ELSE [is_valid |-> TRUE, normalized_move |-> normalized,
              reason |-> "Valid move."]

validate_move(move, player, game_state) ==
    LET state == from_dict(game_state)
        \* move.strip().lower() if isinstance(move, str) else ""
        normalized == IF move = None THEN << >> ELSE lower(strip(move))
    IN  IF normalized \notin VALID_MOVES
        THEN [is_valid |-> FALSE, normalized_move |-> None,
              reason |-> "Invalid move. Must be one of: rock, paper, scissors, bomb."]
        ELSE IF normalized = bomb /\ player = user /\ state.user_bomb_used
        THEN [is_valid |-> FALSE, normalized_move |-> None,
              reason |-> "Bomb already used. You can only use bomb once per game."]
        ELSE IF normalized = bomb /\ player = bot /\ state.bot_bomb_used
        THEN [is_valid |-> FALSE, normalized_move |-> None,
              reason |-> "Bot has already used bomb this game."]
        ELSE [is_valid |-> TRUE, normalized_move |-> normalized,
              reason |-> "Valid move."]

-----------------------------------------------------------------------------
(* tools/resolve_round.py *)

\* WIN_MATRIX without the moves bomb beats
WIN_MATRIX_bomb_beats_nothing ==
    [m \in {rock, paper, scissors, bomb} |->
        IF m = rock THEN {scissors}
        ELSE IF m = paper THEN {rock}
        ELSE IF m = scissors THEN {paper}
        ELSE {}]

\* WIN_MATRIX with "rock": {"paper"}
WIN_MATRIX_rock_beats_paper ==
    [m \in {rock, paper, scissors, bomb} |->
        IF m = rock THEN {paper}
        ELSE IF m = paper THEN {rock}
        ELSE IF m = scissors THEN {paper}
        ELSE {rock, paper, scissors}]

\* WIN_MATRIX[attacker] = the moves the attacker beats
WIN_MATRIX ==
    [m \in {rock, paper, scissors, bomb} |->
        IF m = rock THEN {scissors}
        ELSE IF m = paper THEN {rock}
        ELSE IF m = scissors THEN {paper}
        ELSE {rock, paper, scissors}]

resolve_round(user_move, bot_move, game_state) ==
    IF user_move = bot_move
    THEN [winner |-> draw, explanation |-> "Both played the same. It's a draw."]
    ELSE IF bot_move \in get(WIN_MATRIX, user_move, {})
    THEN IF user_move = bomb
         THEN [winner |-> user, explanation |-> "User's bomb destroys bot's move."]
         ELSE [winner |-> user, explanation |-> "User's move beats bot's move."]
    ELSE IF user_move \in get(WIN_MATRIX, bot_move, {})
    THEN IF bot_move = bomb
         THEN [winner |-> bot, explanation |-> "Bot's bomb destroys user's move."]
         ELSE [winner |-> bot, explanation |-> "Bot's move beats user's move."]
    ELSE [winner |-> draw, explanation |-> "Unexpected matchup"]

-----------------------------------------------------------------------------
(* tools/update_game_state.py *)

MAX_ROUNDS == 3
WIN_SCORE == 2

AdvanceWith(state, win_score, last_round, tie, always) ==
    LET checked ==
            IF state.user_score >= win_score
            THEN [state EXCEPT !.game_over = TRUE, !.final_winner = user]
            ELSE IF state.bot_score >= win_score
            THEN [state EXCEPT !.game_over = TRUE, !.final_winner = bot]
            ELSE IF state.current_round >= last_round
            THEN [state EXCEPT
                    !.game_over = TRUE,
                    !.final_winner =
                        IF state.user_score > state.bot_score THEN user
                        ELSE IF state.bot_score > state.user_score THEN bot
                        ELSE tie]
            ELSE state
    IN  IF always \/ ~checked.game_over
        THEN [checked EXCEPT !.current_round = @ + 1]
        ELSE checked

\* _advance_round with "score > 2" for "score >= 2"
_advance_round_late_win(state) ==
    AdvanceWith(state, WIN_SCORE + 1, MAX_ROUNDS, draw, FALSE)

\* _advance_round with "current_round > 3" for "current_round >= 3"
_advance_round_extra_round(state) ==
    AdvanceWith(state, WIN_SCORE, MAX_ROUNDS + 1, draw, FALSE)

\* _advance_round whose last else branch names the user
_advance_round_tie_to_user(state) ==
    AdvanceWith(state, WIN_SCORE, MAX_ROUNDS, user, FALSE)

\* _advance_round that increments current_round without the game_over test
_advance_round_always_increments(state) ==
    AdvanceWith(state, WIN_SCORE, MAX_ROUNDS, draw, TRUE)

_advance_round(state) ==
    LET checked ==
            IF state.user_score >= WIN_SCORE
            THEN [state EXCEPT !.game_over = TRUE, !.final_winner = user]
            ELSE IF state.bot_score >= WIN_SCORE
            THEN [state EXCEPT !.game_over = TRUE, !.final_winner = bot]
            ELSE IF state.current_round >= MAX_ROUNDS
            THEN [state EXCEPT
                    !.game_over = TRUE,
                    !.final_winner =
                        IF state.user_score > state.bot_score THEN user
                        ELSE IF state.bot_score > state.user_score THEN bot
                        ELSE draw]
            ELSE state
    IN  IF ~checked.game_over
        THEN [checked EXCEPT !.current_round = @ + 1]
        ELSE checked

\* update_game_state without "if bot_move == 'bomb': bot_bomb_used = True"
update_game_state_no_bot_flag(game_state, user_move, bot_move, round_winner, reason) ==
    LET state == from_dict(game_state)
        recorded == [state EXCEPT
            !.round_history =
                Append(@, RoundResult(state.current_round, user_move,
                                      bot_move, round_winner)),
            !.user_score = IF round_winner = user THEN @ + 1 ELSE @,
            !.bot_score = IF round_winner = user THEN @
                          ELSE IF round_winner = bot THEN @ + 1 ELSE @,
            !.user_bomb_used = IF user_move = bomb THEN TRUE ELSE @]
    IN  IF reason = invalid
        THEN [updated_game_state |-> to_dict(_advance_round(state))]
        ELSE [updated_game_state |-> to_dict(_advance_round(recorded))]

\* update_game_state that records the round under the next round's number
update_game_state_numbered_next(game_state, user_move, bot_move, round_winner, reason) ==
    LET state == from_dict(game_state)
        recorded == [state EXCEPT
            !.round_history =
                Append(@, RoundResult(state.current_round + 1, user_move,
                                      bot_move, round_winner)),
            !.user_score = IF round_winner = user THEN @ + 1 ELSE @,
            !.bot_score = IF round_winner = user THEN @
                          ELSE IF round_winner = bot THEN @ + 1 ELSE @,
            !.user_bomb_used = IF user_move = bomb THEN TRUE ELSE @,
            !.bot_bomb_used = IF bot_move = bomb THEN TRUE ELSE @]
    IN  IF reason = invalid
        THEN [updated_game_state |-> to_dict(_advance_round(state))]
        ELSE [updated_game_state |-> to_dict(_advance_round(recorded))]

\* update_game_state that assigns each bomb flag from the move of the round
update_game_state_flag_of_round(game_state, user_move, bot_move, round_winner, reason) ==
    LET state == from_dict(game_state)
        recorded == [state EXCEPT
            !.round_history =
                Append(@, RoundResult(state.current_round, user_move,
                                      bot_move, round_winner)),
            !.user_score = IF round_winner = user THEN @ + 1 ELSE @,
            !.bot_score = IF round_winner = user THEN @
                          ELSE IF round_winner = bot THEN @ + 1 ELSE @,
            !.user_bomb_used = (user_move = bomb),
            !.bot_bomb_used = (bot_move = bomb)]
    IN  IF reason = invalid
        THEN [updated_game_state |-> to_dict(_advance_round(state))]
        ELSE [updated_game_state |-> to_dict(_advance_round(recorded))]

\* update_game_state whose "elif round_winner == 'bot'" is an "else"
update_game_state_draw_to_bot(game_state, user_move, bot_move, round_winner, reason) ==
    LET state == from_dict(game_state)
        recorded == [state EXCEPT
            !.round_history =
                Append(@, RoundResult(state.current_round, user_move,
                                      bot_move, round_winner)),
            !.user_score = IF round_winner = user THEN @ + 1 ELSE @,
            !.bot_score = IF round_winner = user THEN @ ELSE @ + 1,
            !.user_bomb_used = IF user_move = bomb THEN TRUE ELSE @,
            !.bot_bomb_used = IF bot_move = bomb THEN TRUE ELSE @]
    IN  IF reason = invalid
        THEN [updated_game_state |-> to_dict(_advance_round(state))]
        ELSE [updated_game_state |-> to_dict(_advance_round(recorded))]

update_game_state(game_state, user_move, bot_move, round_winner, reason) ==
    LET state == from_dict(game_state)
        recorded == [state EXCEPT
            !.round_history =
                Append(@, RoundResult(state.current_round, user_move,
                                      bot_move, round_winner)),
            !.user_score = IF round_winner = user THEN @ + 1 ELSE @,
            !.bot_score = IF round_winner = user THEN @
                          ELSE IF round_winner = bot THEN @ + 1 ELSE @,
            !.user_bomb_used = IF user_move = bomb THEN TRUE ELSE @,
            !.bot_bomb_used = IF bot_move = bomb THEN TRUE ELSE @]
    IN  IF reason = invalid
        THEN [updated_game_state |-> to_dict(_advance_round(state))]
        ELSE [updated_game_state |-> to_dict(_advance_round(recorded))]

-----------------------------------------------------------------------------
(* tools/waste_round.py *)

\* waste_round that gives the bot the wasted round
waste_round_bot_scores(game_state) ==
    LET state == from_dict(game_state)
        wasted == [state EXCEPT !.bot_score = @ + 1,
                                !.current_round = @ + 1]
    IN  [updated_game_state |-> to_dict(wasted),
         rounds_remaining |-> 3 - (wasted.current_round - 1)]

\* waste_round that ends the game only past round 3
waste_round_past_last_round(game_state) ==
    LET state == from_dict(game_state)
        wasted ==
            IF state.current_round > 3
            THEN [state EXCEPT
                    !.game_over = TRUE,
                    !.final_winner =
                        IF state.user_score > state.bot_score THEN user
                        ELSE IF state.bot_score > state.user_score THEN bot
                        ELSE draw]
            ELSE [state EXCEPT !.current_round = @ + 1]
        rounds_remaining ==
            IF ~wasted.game_over THEN 3 - (wasted.current_round - 1) ELSE 0
    IN  [updated_game_state |-> to_dict(wasted),
         rounds_remaining |-> rounds_remaining]

waste_round(game_state) ==
    LET state == from_dict(game_state)
        wasted ==
            IF state.current_round >= 3
            THEN [state EXCEPT
                    !.game_over = TRUE,
                    !.final_winner =
                        IF state.user_score > state.bot_score THEN user
                        ELSE IF state.bot_score > state.user_score THEN bot
                        ELSE draw]
            ELSE [state EXCEPT !.current_round = @ + 1]
        rounds_remaining ==
            IF ~wasted.game_over THEN 3 - (wasted.current_round - 1) ELSE 0
    IN  [updated_game_state |-> to_dict(wasted),
         rounds_remaining |-> rounds_remaining]

-----------------------------------------------------------------------------
(* helpers/bot_move.py *)

BASE_MOVES == <<rock, paper, scissors>>
ALL_MOVES == <<rock, paper, scissors, bomb>>

\* random.choice(seq): any element of seq
random_choice(seq) == {seq[i] : i \in 1..Len(seq)}

\* select_bot_move that never looks at bot_bomb_used
select_bot_move_any(state) == random_choice(ALL_MOVES)

\* The moves select_bot_move can return, over every random outcome and seed
select_bot_move(state) ==
    LET available_moves == IF state.bot_bomb_used THEN BASE_MOVES ELSE ALL_MOVES
    IN  random_choice(available_moves)

\* select_bot_move_deterministic(game_state, round_number=None).  kwargs
\* holds round_number when the caller passes an integer; a call without it,
\* or with None, has no such key.
\* select_bot_move_deterministic that cycles through all four moves always
select_bot_move_deterministic_all_moves(state, kwargs) ==
    LET rnd == get(kwargs, "round_number", state.current_round)
        index == (rnd - 1) % Len(ALL_MOVES)
    IN  ALL_MOVES[index + 1]

select_bot_move_deterministic(state, kwargs) ==
    LET rnd == get(kwargs, "round_number", state.current_round)
        available_moves == IF state.bot_bomb_used THEN BASE_MOVES ELSE ALL_MOVES
        index == (rnd - 1) % Len(available_moves)
    IN  available_moves[index + 1]

-----------------------------------------------------------------------------
(* agent.py *)

\* execute_tool whose last branch takes every remaining name
execute_tool_fallthrough(name, args) ==
    IF name = "validate_move"
    THEN validate_move(args.move, args.player, args.game_state)
    ELSE IF name = "resolve_round"
    THEN resolve_round(args.user_move, args.bot_move, args.game_state)
    ELSE update_game_state(args.game_state,
                           get(args, "user_move", None),
                           get(args, "bot_move", None),
                           get(args, "round_winner", None),
                           get(args, "reason", normal))

\* The f-string of the final branch is the pair of its prefix and the name
execute_tool(name, args) ==
    IF name = "validate_move"
    THEN validate_move(args.move, args.player, args.game_state)
    ELSE IF name = "resolve_round"
    THEN resolve_round(args.user_move, args.bot_move, args.game_state)
    ELSE IF name = "update_game_state"
    THEN update_game_state(args.game_state,
                           get(args, "user_move", None),
                           get(args, "bot_move", None),
                           get(args, "round_winner", None),
                           get(args, "reason", normal))
    ELSE [error |-> <<"Unknown tool: ", name>>]

\* extract_move that looks for a move before it looks for a rules request
extract_move_move_first(user_input) ==
    IF extract_move_offline(user_input) # unknown
    THEN extract_move_offline(user_input)
    ELSE IF is_rules_request(user_input) THEN none
    ELSE unknown

\* RPSPlusGame.extract_move
extract_move(user_input) ==
    IF is_rules_request(user_input) THEN none
    ELSE extract_move_offline(user_input)

\* What play_round returns on the paths that consume no round.  calls lists
\* the tools and helpers a path invokes, in order.
Returned(game_state, path, candidate_move) ==
    [state |-> game_state, path |-> path, candidate_move |-> candidate_move,
     is_valid |-> FALSE, user_move |-> None, bot_move |-> None,
     winner |-> None, calls |-> << >>]

\* Step 3 of play_round calling the updater's reason = "invalid" path
InvalidRound_wasted(game_state, candidate_move, bot_move) ==
    LET result == execute_tool("update_game_state",
                    [game_state |-> game_state, reason |-> invalid])
    IN  [state |-> result.updated_game_state, path |-> "invalid",
         candidate_move |-> candidate_move, is_valid |-> FALSE,
         user_move |-> None, bot_move |-> bot_move, winner |-> None,
         calls |-> <<"validate_move", "select_bot_move",
                     "update_game_state">>]

\* Step 3 of play_round asking again: the state is returned as it was
InvalidRound_ask_again(game_state, candidate_move, bot_move) ==
    [state |-> game_state, path |-> "invalid",
     candidate_move |-> candidate_move, is_valid |-> FALSE,
     user_move |-> rock, bot_move |-> bot_move, winner |-> bot,
     calls |-> <<"validate_move", "select_bot_move">>]

\* Step 3 of play_round: the invalid move wastes the round
InvalidRound(game_state, candidate_move, bot_move) ==
    LET result == execute_tool("update_game_state",
                    [game_state |-> game_state, user_move |-> rock,
                     bot_move |-> bot_move, round_winner |-> bot])
    IN  [state |-> result.updated_game_state, path |-> "invalid",
         candidate_move |-> candidate_move, is_valid |-> FALSE,
         user_move |-> rock, bot_move |-> bot_move, winner |-> bot,
         calls |-> <<"validate_move", "select_bot_move",
                     "update_game_state">>]

\* Steps 5 to 7 of play_round: resolve the round and update the state
NormalRound(game_state, candidate_move, user_move, bot_move) ==
    LET resolution == execute_tool("resolve_round",
                        [user_move |-> user_move, bot_move |-> bot_move,
                         game_state |-> game_state])
        result == execute_tool("update_game_state",
                    [game_state |-> game_state, user_move |-> user_move,
                     bot_move |-> bot_move,
                     round_winner |-> resolution.winner])
    IN  [state |-> result.updated_game_state, path |-> "normal",
         candidate_move |-> candidate_move, is_valid |-> TRUE,
         user_move |-> user_move, bot_move |-> bot_move,
         winner |-> resolution.winner,
         calls |-> <<"validate_move", "select_bot_move", "resolve_round",
                     "update_game_state">>]

\* play_round without its "game already over" check
play_round_unguarded(game_state, user_input) ==
    LET state == from_dict(game_state)
        candidate_move == extract_move(user_input)
        validation == execute_tool("validate_move",
                        [move |-> candidate_move, player |-> user,
                         game_state |-> game_state])
    IN  IF candidate_move = none
        THEN {Returned(game_state, "rules", candidate_move)}
        ELSE IF ~validation.is_valid
        THEN {InvalidRound(game_state, candidate_move, bot_move) :
                bot_move \in select_bot_move(state)}
        ELSE {NormalRound(game_state, candidate_move,
                          validation.normalized_move, bot_move) :
                bot_move \in select_bot_move(state)}

\* RPSPlusGame.play_round: the set of results it can return, one for each
\* move random.choice can give the bot
play_round(game_state, user_input) ==
    LET state == from_dict(game_state)
        candidate_move == extract_move(user_input)
        validation == execute_tool("validate_move",
                        [move |-> candidate_move, player |-> user,
                         game_state |-> game_state])
    IN  IF state.game_over
        THEN {Returned(game_state, "game_over", None)}
        ELSE IF candidate_move = none
        THEN {Returned(game_state, "rules", candidate_move)}
        ELSE IF ~validation.is_valid
        THEN {InvalidRound(game_state, candidate_move, bot_move) :
                bot_move \in select_bot_move(state)}
        ELSE {NormalRound(game_state, candidate_move,
                          validation.normalized_move, bot_move) :
                bot_move \in select_bot_move(state)}

-----------------------------------------------------------------------------
(* Objects and references.  The heap is the sequence of the objects made so *)
(* far and a reference is an index into it.  A state object, a dict or a    *)
(* GameState, holds its scalar fields and a reference to its round_history  *)
(* list; a list object holds its entries.  The operators below say which    *)
(* object each step of the code creates and which it writes to; what is     *)
(* written is computed by the operators above.                              *)

\* The state an object stands for, its history read through the reference
value(heap, ref) ==
    [f \in DOMAIN heap[ref] \ {"kind"} |->
        IF f = "round_history" THEN heap[heap[ref].round_history].items
        ELSE heap[ref][f]]

\* A new list object and a new state object that refers to it
allocate(heap, kind, state) ==
    LET list == [kind |-> "list", items |-> state.round_history]
        object == [f \in DOMAIN state \cup {"kind"} |->
                     IF f = "kind" THEN kind
                     ELSE IF f = "round_history" THEN Len(heap) + 1
                     ELSE state[f]]
    IN  [heap |-> heap \o <<list, object>>, ref |-> Len(heap) + 2]

\* A from_dict that takes over the list of the dict instead of building one
from_dict_at_shared_history(heap, data) ==
    LET state == from_dict(value(heap, data))
        object == [f \in DOMAIN state \cup {"kind"} |->
                     IF f = "kind" THEN "GameState"
                     ELSE IF f = "round_history" THEN heap[data].round_history
                     ELSE state[f]]
    IN  [heap |-> Append(heap, object), ref |-> Len(heap) + 1]

\* GameState.from_dict: a new GameState with a new history list
from_dict_at(heap, data) ==
    allocate(heap, "GameState", from_dict(value(heap, data)))

\* GameState.to_dict: a new dict with a new history list
to_dict_at(heap, self) ==
    allocate(heap, "dict", to_dict(value(heap, self)))

\* update_game_state: a dict is converted first, a GameState is used as it
\* is; the round is then written into that GameState and into its list in
\* place, and the result is a new dict
update_game_state_at(heap, game_state, user_move, bot_move, round_winner, reason) ==
    LET converted == IF heap[game_state].kind = "dict"
                     THEN from_dict_at(heap, game_state)
                     ELSE [heap |-> heap, ref |-> game_state]
        state == converted.ref
        history == converted.heap[state].round_history
        updated == from_dict(
                     update_game_state(value(converted.heap, state),
                                       user_move, bot_move, round_winner,
                                       reason).updated_game_state)
        written == [converted.heap EXCEPT
                      ![history] = [kind |-> "list",
                                    items |-> updated.round_history],
                      ![state] = [f \in DOMAIN @ |->
                                    IF f \in {"kind", "round_history"}
                                    THEN @[f] ELSE updated[f]]]
        result == to_dict_at(written, state)
    IN  [heap |-> result.heap, updated_game_state |-> result.ref]

\* RPSPlusGame.play_round on a reference to the caller's dict: the heap
\* afterwards and the reference returned, for each move of the bot
play_round_at(heap, game_state, user_input) ==
    LET parsed == from_dict_at(heap, game_state)
        state == value(parsed.heap, parsed.ref)
        candidate_move == extract_move(user_input)
        validated == from_dict_at(parsed.heap, game_state)
        validation == validate_move(candidate_move, user,
                                    value(parsed.heap, game_state))
    IN  IF state.game_over
        THEN {[heap |-> parsed.heap, state |-> game_state,
               path |-> "game_over"]}
        ELSE IF candidate_move = none
        THEN {[heap |-> parsed.heap, state |-> game_state, path |-> "rules"]}
        ELSE IF ~validation.is_valid
        THEN {LET result == update_game_state_at(validated.heap, game_state,
                                                 rock, bot_move, bot, normal)
              IN  [heap |-> result.heap, state |-> result.updated_game_state,
                   path |-> "invalid"] :
                bot_move \in select_bot_move(state)}
        ELSE {LET resolution == resolve_round(validation.normalized_move,
                                              bot_move,
                                              value(validated.heap, game_state))
                  result == update_game_state_at(validated.heap, game_state,
                                                 validation.normalized_move,
                                                 bot_move, resolution.winner,
                                                 normal)
              IN  [heap |-> result.heap, state |-> result.updated_game_state,
                   path |-> "normal"] :
                bot_move \in select_bot_move(state)}

\* A save that writes the state under every id of the store
save_every_session(data, sid, state) == [k \in DOMAIN data \cup {sid} |-> state]

\* GameStateStore.save
save(data, sid, state) ==
    [k \in DOMAIN data \cup {sid} |-> IF k = sid THEN state ELSE data[k]]

\* GameStateStore.load
load(data, sid) == get(data, sid, None)

session_id == "demo_session"

-----------------------------------------------------------------------------
(* The game: any sequence of rounds of one session *)

\* The raw texts a user types:
    \*   'rock'
    \*   'i pick Paper!'
    \*   ' SCISSORS'
    \*   'boom'
    \*   'xyz'
    \*   'what are the rules?'
    \*   'how about rock'
    \*   'paper please'
UserInputs ==
    {
      <<"r","o","c","k">>,
      <<"i"," ","p","i","c","k"," ","P","a","p","e","r","!">>,
      <<" ","S","C","I","S","S","O","R","S">>,
      <<"b","o","o","m">>,
      <<"x","y","z">>,
      <<"w","h","a","t"," ","a","r","e"," ","t","h","e"," ","r","u","l","e","s","?">>,
      <<"h","o","w"," ","a","b","o","u","t"," ","r","o","c","k">>,
      <<"p","a","p","e","r"," ","p","l","e","a","s","e">>
    }

\* game.start_game(); store.save(session_id, state)
Init ==
    /\ _data = save(<< >>, session_id, to_dict(create_new_game))
    /\ last = [op |-> "start_game"]
    /\ rounds = [normal |-> 0, invalid |-> 0]

\* One pass of the game loop: store.load, play_round, store.save
PlayRound ==
    \E user_input \in UserInputs :
        LET game_state == load(_data, session_id)
        IN  \E out \in play_round(game_state, user_input) :
                /\ _data' = save(_data, session_id, out.state)
                /\ last' = [op |-> "play_round", game_state |-> game_state,
                            user_input |-> user_input, out |-> out]
                /\ rounds' = IF out.path \in {"normal", "invalid"}
                             THEN [rounds EXCEPT ![out.path] = @ + 1]
                             ELSE rounds

Next == PlayRound

Spec == Init /\ [][Next]_vars

\* The stored state of the session
stored == _data[session_id]

-----------------------------------------------------------------------------
(* The game played to its end *)

\* The texts of the user:
\*   'rock'
\*   'boom'
\*   'xyz'
\*   'what are the rules?'
\*   'help'
LiveInputs ==
    {
      <<"h","e","l","p">>,
      <<"r","o","c","k">>,
      <<"b","o","o","m">>,
      <<"x","y","z">>,
      <<"w","h","a","t"," ","a","r","e"," ","t","h","e"," ","r","u","l","e","s","?">>
    }

\* One pass of the game loop with any of these texts
LiveRound ==
    \E user_input \in LiveInputs :
        LET game_state == load(_data, session_id)
        IN  \E out \in play_round(game_state, user_input) :
                /\ _data' = save(_data, session_id, out.state)
                /\ last' = [op |-> "play_round", game_state |-> game_state,
                            user_input |-> user_input, out |-> out]
                /\ rounds' = IF out.path \in {"normal", "invalid"}
                             THEN [rounds EXCEPT ![out.path] = @ + 1]
                             ELSE rounds

\* A pass of the game loop whose text is no rules request
MoveRound == LiveRound /\ last'.out.candidate_move # none

\* The game of a user who does not send rules requests for ever.  The loop
\* blocks on input() and a move can be typed in every state, so MoveRound is
\* always enabled and WF_vars(MoveRound) is []<><<MoveRound>>_vars.
SpecLive == Init /\ [][LiveRound]_vars /\ []<><<MoveRound>>_vars

-----------------------------------------------------------------------------
(* The game, with the stored state taken through to_dict and from_dict *)

\* The stored dict d and the GameState s it stands for, converted there and
\* back: from_dict(s.to_dict()) and from_dict(d).to_dict()
RoundTrip ==
    LET d == load(_data, session_id)
        s == from_dict(d)
    IN  /\ last.op # "round_trip"
        /\ last' = [op |-> "round_trip", state |-> s, dict |-> d,
                    back |-> from_dict(to_dict(s)),
                    again |-> to_dict(from_dict(d))]
        /\ UNCHANGED <<_data, rounds>>

SpecSerial == Init /\ [][PlayRound \/ RoundTrip]_vars

-----------------------------------------------------------------------------
(* The game, with the stored state handed to both ways of wasting a round *)

\* waste_round(state) and update_game_state(state, reason="invalid") on the
\* stored state
WasteBothWays ==
    LET game_state == load(_data, session_id)
    IN  /\ last.op # "waste_both_ways"
        /\ last' = [op |-> "waste_both_ways", game_state |-> game_state,
                    waste_round |-> waste_round(game_state),
                    update_game_state |->
                        update_game_state(game_state, None, None, None,
                                          invalid)]
        /\ UNCHANGED <<_data, rounds>>

SpecWasteBoth == Init /\ [][PlayRound \/ WasteBothWays]_vars

-----------------------------------------------------------------------------
(* Two sessions in one store: their whole rounds in any interleaving *)

SessionIds == {"session_a", "session_b"}

\* The texts the users of the two sessions type:
\*   'rock'
\*   'what are the rules?'
SessionInputs ==
    {
      <<"r","o","c","k">>,
      <<"w","h","a","t"," ","a","r","e"," ","t","h","e"," ","r","u","l","e","s","?">>
    }

\* start_game and store.save for each session.  rounds[sid] is the state
\* session sid has when its rounds are played alone, in a store of its own.
InitSessions ==
    /\ _data = save(save(<< >>, "session_a", to_dict(create_new_game)),
                    "session_b", to_dict(create_new_game))
    /\ last = [op |-> "start_game"]
    /\ rounds = [sid \in SessionIds |->
                    load(save(<< >>, sid, to_dict(create_new_game)), sid)]

\* One whole round of one session: store.load, play_round, store.save; the
\* same text and the same bot move are played on the session run alone
SessionRound ==
    \E sid \in SessionIds, user_input \in SessionInputs :
        LET game_state == load(_data, sid)
        IN  \E out \in play_round(game_state, user_input) :
            \E alone \in {o \in play_round(rounds[sid], user_input) :
                              o.bot_move = out.bot_move} :
                /\ _data' = save(_data, sid, out.state)
                /\ last' = [op |-> "play_round", sid |-> sid,
                            game_state |-> game_state,
                            user_input |-> user_input, out |-> out]
                /\ rounds' = [rounds EXCEPT ![sid] =
                                load(save(<< >>, sid, alone.state), sid)]

SpecSessions == InitSessions /\ [][SessionRound]_vars

-----------------------------------------------------------------------------
(* The tools as functions of their arguments: each is applied to state     *)
(* snapshots drawn from a bounded set that holds well-formed, terminal,    *)
(* inconsistent and out-of-range ones                                      *)

MaxRound == 4
MaxScore == 2

\* Sample histories: none, a 2-0 straight win, a bomb clash
Histories ==
    { << >>,
      << RoundResult(1, rock, scissors, user),
         RoundResult(2, paper, rock, user) >>,
      << RoundResult(1, bomb, bomb, draw) >> }

States ==
    [current_round : 1..MaxRound,
     user_score : 0..MaxScore,
     bot_score : 0..MaxScore,
     user_bomb_used : BOOLEAN,
     bot_bomb_used : BOOLEAN,
     round_history : Histories,
     game_over : BOOLEAN,
     final_winner : {None, user, bot, draw}]

\* The caller holds any snapshot
InitTools ==
    /\ _data \in {save(<< >>, session_id, s) : s \in States}
    /\ last = [op |-> "start_game"]
    /\ rounds = [normal |-> 0, invalid |-> 0]

\* The move strings handed to validate_move, and None for a non-string:
    \*   'rock'
    \*   ' Rock '
    \*   'PAPER'
    \*   'scissors'
    \*   'bomb'
    \*   ' Bomb\n'
    \*   'boom'
    \*   ''
MoveInputs ==
    {
      <<"r","o","c","k">>,
      <<" ","R","o","c","k"," ">>,
      <<"P","A","P","E","R">>,
      <<"s","c","i","s","s","o","r","s">>,
      <<"b","o","m","b">>,
      <<" ","B","o","m","b","\n">>,
      <<"b","o","o","m">>,
      <<>>,
      None
    }

\* No call has been made on the held snapshot yet.  A tool is a function of
\* its arguments, so one call per snapshot covers every call.
Fresh == last.op = "start_game"

\* execute_tool("validate_move", ...) on the held snapshot
ValidateMove ==
    \E move \in MoveInputs, player \in {user, bot} :
        LET game_state == load(_data, session_id)
        IN  /\ Fresh
            /\ last' = [op |-> "validate_move", game_state |-> game_state,
                        move |-> move, player |-> player,
                        out |-> execute_tool("validate_move",
                                    [move |-> move, player |-> player,
                                     game_state |-> game_state])]
            /\ UNCHANGED <<_data, rounds>>

SpecValidate == InitTools /\ [][ValidateMove]_vars

\* execute_tool("update_game_state", ...) on the held snapshot: the normal
\* path with any two moves and any winner, and the reason = "invalid" path
UpdateArgs ==
    [user_move : VALID_MOVES, bot_move : VALID_MOVES,
     round_winner : {user, bot, draw}, reason : {normal}]
    \cup [reason : {invalid}]

UpdateGameState ==
    \E args \in UpdateArgs :
        LET game_state == load(_data, session_id)
        IN  /\ Fresh
            /\ last' = [op |-> "update_game_state", game_state |-> game_state,
                        reason |-> args.reason, args |-> args,
                        out |-> update_game_state(game_state,
                                    get(args, "user_move", None),
                                    get(args, "bot_move", None),
                                    get(args, "round_winner", None),
                                    args.reason)]
            /\ UNCHANGED <<_data, rounds>>

SpecUpdate == InitTools /\ [][UpdateGameState]_vars

\* execute_tool("resolve_round", ...) with any two canonical moves
ResolveRound ==
    \E user_move \in VALID_MOVES, bot_move \in VALID_MOVES :
        LET game_state == load(_data, session_id)
        IN  /\ Fresh
            /\ last' = [op |-> "resolve_round", game_state |-> game_state,
                        user_move |-> user_move, bot_move |-> bot_move,
                        out |-> execute_tool("resolve_round",
                                    [user_move |-> user_move,
                                     bot_move |-> bot_move,
                                     game_state |-> game_state])]
            /\ UNCHANGED <<_data, rounds>>

SpecResolve == InitTools /\ [][ResolveRound]_vars

\* The round numbers a caller passes to select_bot_move_deterministic
RoundNumbers == (0 - 1)..(2 * MaxRound)

\* select_bot_move(game_state) on the held snapshot, for each random outcome
SelectBotMove ==
    LET game_state == load(_data, session_id)
    IN  \E move \in select_bot_move(from_dict(game_state)) :
            /\ Fresh
            /\ last' = [op |-> "select_bot_move", game_state |-> game_state,
                        kwargs |-> << >>, out |-> move]
            /\ UNCHANGED <<_data, rounds>>

DeterministicCall(kwargs) ==
    LET game_state == load(_data, session_id)
    IN  /\ Fresh
        /\ last' = [op |-> "select_bot_move_deterministic",
                    game_state |-> game_state, kwargs |-> kwargs,
                    out |-> select_bot_move_deterministic(
                                from_dict(game_state), kwargs)]
        /\ UNCHANGED <<_data, rounds>>

\* select_bot_move_deterministic on the held snapshot, with and without a
\* round number
SelectBotMoveDeterministic ==
    \/ DeterministicCall(<< >>)
    \/ \E n \in RoundNumbers : DeterministicCall([round_number |-> n])

SpecBot == InitTools /\ [][SelectBotMove \/ SelectBotMoveDeterministic]_vars

\* play_round on the held snapshot
PlayRoundOnce == Fresh /\ LiveRound

\* The selectors called on a snapshot, and play_round calling select_bot_move
SpecBotLegal ==
    InitTools
    /\ [][SelectBotMove \/ SelectBotMoveDeterministic \/ PlayRoundOnce]_vars

\* waste_round(game_state) on the held snapshot
WasteRound ==
    LET game_state == load(_data, session_id)
    IN  /\ Fresh
        /\ last' = [op |-> "waste_round", game_state |-> game_state,
                    out |-> waste_round(game_state)]
        /\ UNCHANGED <<_data, rounds>>

SpecWaste == InitTools /\ [][WasteRound]_vars

\* The caller holds the snapshot as a dict with its history list, and calls
\* play_round on it
PlayRoundAt ==
    /\ Fresh
    /\ \E user_input \in LiveInputs :
        LET caller == allocate(<< >>, "dict", load(_data, session_id))
        IN  \E out \in play_round_at(caller.heap, caller.ref, user_input) :
                /\ last' = [op |-> "play_round_at", before |-> caller.heap,
                            game_state |-> caller.ref,
                            user_input |-> user_input, out |-> out]
                /\ UNCHANGED <<_data, rounds>>

SpecAlias == InitTools /\ [][PlayRoundAt]_vars

\* The names the dispatcher knows, and names it does not: a tool of the
\* repository it does not dispatch, a helper, a name in another case, the
\* empty name
KnownTools == {"validate_move", "resolve_round", "update_game_state"}
UnknownTools == {"waste_round", "select_bot_move", "Validate_Move", ""}

\* The calls of execute_tool on a snapshot: each known tool with its
\* arguments, each unknown name with the snapshot
ToolCalls(game_state) ==
    {<<"validate_move",
       [move |-> m, player |-> p, game_state |-> game_state]>> :
            m \in MoveInputs, p \in {user, bot}}
    \cup {<<"resolve_round",
            [user_move |-> u, bot_move |-> b, game_state |-> game_state]>> :
            u \in VALID_MOVES, b \in VALID_MOVES}
    \cup {<<"update_game_state", [game_state |-> game_state] @@ a>> :
            a \in UpdateArgs}
    \cup {<<n, [game_state |-> game_state]>> : n \in UnknownTools}

ExecuteTool ==
    LET game_state == load(_data, session_id)
    IN  \E call \in ToolCalls(game_state) :
            /\ Fresh
            /\ last' = [op |-> "execute_tool", name |-> call[1],
                        args |-> call[2], game_state |-> game_state,
                        out |-> execute_tool(call[1], call[2])]
            /\ UNCHANGED <<_data, rounds>>

SpecDispatch == InitTools /\ [][ExecuteTool]_vars

\* The keys of the synonym table
TableKeys == {MOVE_SYNONYMS[i][1] : i \in 1..Len(MOVE_SYNONYMS)}

\* str.upper(), for the texts a user types in capitals
upper(s) ==
    [i \in 1..Len(s) |->
        IF \E j \in 1..Len(LOWERCASE) : LOWERCASE[j] = s[i]
        THEN UPPERCASE[CHOOSE j \in 1..Len(LOWERCASE) : LOWERCASE[j] = s[i]]
        ELSE s[i]]

\* Texts that are no table key:
\*   'paper please'
\*   'xbz'
\*   'xyz'
\*   ''
\*   'a b'
\*   'SNIP it'
\*   'nuke?'
\*   'wxyz ✂ q'
\*   'go'
\*   'i pick '
\*   'zz top'
SampleTexts ==
    {
      <<"p","a","p","e","r"," ","p","l","e","a","s","e">>,
      <<"x","b","z">>,
      <<"x","y","z">>,
      <<>>,
      <<"a"," ","b">>,
      <<"S","N","I","P"," ","i","t">>,
      <<"n","u","k","e","?">>,
      <<"w","x","y","z"," ","U+2702"," ","q">>,
      <<"g","o">>,
      <<"i"," ","p","i","c","k"," ">>,
      <<"z","z"," ","t","o","p">>
    }

\* The texts handed to the parser: each table key as it is, in capitals,
\* padded with blanks, and behind a filler with a trailing "!"; the sample
\* texts; the inputs of the game
ParserInputs ==
    TableKeys
    \cup {upper(k) : k \in TableKeys}
    \cup {<<" ">> \o k \o <<" ", " ">> : k \in TableKeys}
    \cup {fillers[1] \o k \o <<"!">> : k \in TableKeys}
    \cup SampleTexts
    \cup UserInputs

\* extract_move_offline(text), with normalize_input(text) and
\* is_rules_request(text) alongside
ExtractMoveOffline ==
    \E text \in ParserInputs :
        /\ Fresh
        /\ last' = [op |-> "extract_move_offline", user_input |-> text,
                    normalized |-> normalize_input(text),
                    rules |-> is_rules_request(text),
                    out |-> extract_move_offline(text)]
        /\ UNCHANGED <<_data, rounds>>

SpecParser == Init /\ [][ExtractMoveOffline]_vars

-----------------------------------------------------------------------------
(* The tools called on the states of a game: a host that holds the state   *)
(* a round returned calls a tool on it directly                            *)

StoredUpdateArgs ==
    [user_move : {rock, bomb}, bot_move : {rock, bomb},
     round_winner : {user, bot, draw}, reason : {normal}]
    \cup [reason : {invalid}]

\* execute_tool("update_game_state", ...) on the state the last round
\* returned; the result goes to the caller, the store is not written
UpdateStored ==
    \E args \in StoredUpdateArgs :
        LET game_state == load(_data, session_id)
        IN  /\ last.op = "play_round"
            /\ last' = [op |-> "update_game_state", game_state |-> game_state,
                        reason |-> args.reason, args |-> args,
                        out |-> execute_tool("update_game_state",
                                    [game_state |-> game_state] @@ args)]
            /\ UNCHANGED <<_data, rounds>>

\* The game goes on from the states the rounds returned
PlayOn == last.op # "update_game_state" /\ PlayRound

SpecGameTools == Init /\ [][PlayOn \/ UpdateStored]_vars

-----------------------------------------------------------------------------
(* Properties *)

\* C1: game-over closure.  Once the stored state has game_over = true, every
\* further play_round call, whatever the input, returns the state it was
\* given: all eight fields (final_winner, the scores, current_round and
\* round_history among them) stay as they are.
C1_GameOverClosure ==
    [][stored.game_over => stored' = stored]_vars

\* A play_round call has been made on a terminal state and has returned it
C1_Witness ==
    /\ last.op = "play_round"
    /\ last.game_state.game_over
    /\ last.out.path = "game_over"
    /\ stored = last.game_state
    /\ stored.final_winner # None

\* C2: the State Updater is a no-op on a terminal state.  Whenever
\* update_game_state is called (any moves, any winner, either reason) on a
\* state whose game_over is already true, the state it returns equals the
\* state it was given.
C2_UpdaterNoOpOnTerminal ==
    (last.op = "update_game_state" /\ last.game_state.game_over)
        => last.out.updated_game_state = last.game_state

\* The rounds consumed so far (normal and penalty rounds)
RoundsPlayed == rounds.normal + rounds.invalid

\* The last call was a play_round that consumed a round
RoundConsumed ==
    last.op = "play_round" /\ last.out.path \in {"normal", "invalid"}

Score(state, player) ==
    IF player = user THEN state.user_score ELSE state.bot_score

BombUsed(state, player) ==
    IF player = user THEN state.user_bomb_used ELSE state.bot_bomb_used

\* C3: score-driven termination.  When round 1 or round 2 leaves a player
\* with a score of 2, the state that round returns has game_over = true and
\* final_winner = that player, current_round is the round just played (not
\* incremented), round_history has exactly 2 entries, and no later call
\* records a third round.
C3_ScoreDrivenTermination ==
    /\ [](\A player \in {user, bot} :
            (/\ RoundConsumed
             /\ last.game_state.current_round \in {1, 2}
             /\ Score(stored, player) = 2)
            => /\ stored.game_over
               /\ stored.final_winner = player
               /\ stored.current_round = last.game_state.current_round
               /\ Len(stored.round_history) = 2)
    /\ [][(stored.game_over /\ Len(stored.round_history) = 2)
            => Len(stored'.round_history) = 2]_vars

\* Round 2 has just given the user a 2-0 win
C3_Witness ==
    /\ RoundConsumed
    /\ last.game_state.current_round = 2
    /\ stored.user_score = 2 /\ stored.bot_score = 0
    /\ stored.game_over
    /\ Len(stored.round_history) = 2

\* C4: in every state of a game, game_over is true exactly when user_score
\* >= 2, or bot_score >= 2, or the third round has been completed.
C4_GameOverIff ==
    stored.game_over <=>
        (stored.user_score >= 2 \/ stored.bot_score >= 2 \/ RoundsPlayed >= 3)

\* The game has ended on the third round with neither score at 2
C4_Witness ==
    /\ stored.game_over
    /\ stored.user_score < 2 /\ stored.bot_score < 2
    /\ RoundsPlayed = 3

\* C5: in every state of a game, final_winner is set exactly when game_over
\* is true, and then it is user when user_score > bot_score, bot when
\* bot_score > user_score, and draw when the scores are equal.
C5_FinalWinner ==
    /\ stored.final_winner # None <=> stored.game_over
    /\ stored.game_over =>
        stored.final_winner =
            IF stored.user_score > stored.bot_score THEN user
            ELSE IF stored.bot_score > stored.user_score THEN bot
            ELSE draw

\* A 1-1 score followed by a drawn round 3: a draw, the score still 1-1
C5_Witness ==
    /\ RoundConsumed
    /\ last.game_state.current_round = 3
    /\ last.game_state.user_score = 1 /\ last.game_state.bot_score = 1
    /\ last.out.winner = draw
    /\ stored.game_over /\ stored.final_winner = draw
    /\ stored.user_score = 1 /\ stored.bot_score = 1

\* C6: in every state of a game, 1 <= current_round <= 3: the round counter
\* never advances past 3.
C6_RoundInRange ==
    stored.current_round >= 1 /\ stored.current_round <= 3

\* Round 3 has been played and current_round has stayed at 3
C6_Witness ==
    /\ RoundConsumed
    /\ last.game_state.current_round = 3
    /\ stored.current_round = 3
    /\ stored.game_over

\* C7: monotonic round advancement.  A normal-path update_game_state call on
\* a non-terminal state with current_round in 1..3 leaves current_round
\* unchanged exactly when the state it returns has game_over = true, and
\* otherwise makes it exactly one greater.
C7_MonotonicRound ==
    (/\ last.op = "update_game_state"
     /\ last.reason = normal
     /\ ~last.game_state.game_over
     /\ last.game_state.current_round \in 1..3)
    => LET before == last.game_state.current_round
           after == last.out.updated_game_state
       IN  \/ after.game_over /\ after.current_round = before
           \/ ~after.game_over /\ after.current_round = before + 1

\* A call on round 2 at 1-0 that the user wins: the game ends, current_round
\* stays 2
C7_Witness ==
    /\ last.op = "update_game_state"
    /\ last.reason = normal
    /\ ~last.game_state.game_over
    /\ last.game_state.current_round = 2
    /\ last.game_state.user_score = 1
    /\ last.args.round_winner = user
    /\ last.out.updated_game_state.game_over
    /\ last.out.updated_game_state.current_round = 2

\* C8: bomb is used at most once per game per player.  In every state of a
\* game round_history holds at most one entry with user_move = bomb and at
\* most one entry with bot_move = bomb.
C8_BombAtMostOnce ==
    LET h == stored.round_history
    IN  /\ Cardinality({i \in 1..Len(h) : h[i].user_move = bomb}) <= 1
        /\ Cardinality({i \in 1..Len(h) : h[i].bot_move = bomb}) <= 1

\* Both players have played their bomb, rounds went on after it, and a
\* second bomb of the user has been turned down
C8_Witness ==
    LET h == stored.round_history
    IN  /\ Len(h) = 3
        /\ h[1].user_move = bomb
        /\ h[1].bot_move = bomb
        /\ last.op = "play_round"
        /\ last.out.candidate_move = bomb
        /\ last.out.path = "invalid"

\* C9: bomb single-use in the Validator.  For every state in which a
\* player's bomb-used flag is true, whatever its other fields,
\* validate_move("bomb", that player, state) returns is_valid = false with
\* normalized_move = None.
C9_BombRejected ==
    (/\ last.op = "validate_move"
     /\ last.move = bomb
     /\ BombUsed(last.game_state, last.player))
    => ~last.out.is_valid /\ last.out.normalized_move = None

\* The bot's second bomb is turned down on a terminal, out-of-range state
\* in which the user's flag is false
C9_Witness ==
    /\ last.op = "validate_move"
    /\ last.move = bomb
    /\ last.player = bot
    /\ last.game_state.bot_bomb_used
    /\ ~last.game_state.user_bomb_used
    /\ last.game_state.game_over
    /\ last.game_state.current_round > 3
    /\ ~last.out.is_valid

\* C10: the Validator's decision is exact.  validate_move(move, player,
\* state) returns is_valid = true exactly when the trimmed, lower-cased move
\* is one of rock, paper, scissors, bomb and it is not bomb with the named
\* player's own flag true; a valid result carries that canonical move, an
\* invalid one carries None, and every call returns a result.
C10_ValidatorExact ==
    last.op = "validate_move" =>
        LET canonical == IF last.move = None THEN << >>
                         ELSE lower(strip(last.move))
            allowed == /\ canonical \in {rock, paper, scissors, bomb}
                       /\ ~(canonical = bomb
                            /\ BombUsed(last.game_state, last.player))
        IN  /\ DOMAIN last.out = {"is_valid", "normalized_move", "reason"}
            /\ last.out.is_valid \in BOOLEAN
            /\ last.out.is_valid <=> allowed
            /\ last.out.normalized_move =
                    IF allowed THEN canonical ELSE None

\* " Bomb\n" of the bot is valid, and normalized to bomb, while the user's
\* flag is true and the bot's is false
C10_Witness ==
    /\ last.op = "validate_move"
    /\ last.move = <<" ", "B", "o", "m", "b", "\n">>
    /\ last.player = bot
    /\ last.game_state.user_bomb_used
    /\ ~last.game_state.bot_bomb_used
    /\ last.out.is_valid
    /\ last.out.normalized_move = bomb

\* C11: total, consistent resolution.  For each of the 16 ordered pairs of
\* canonical moves resolve_round returns one winner in {user, bot, draw}
\* without reaching the "Unexpected matchup" fallback; for a # b,
\* resolve(a, b) = user exactly when resolve(b, a) = bot; and
\* resolve(a, a) = draw.
C11_TotalResolution ==
    last.op = "resolve_round" =>
        LET a == last.user_move
            b == last.bot_move
            swapped == resolve_round(b, a, last.game_state)
        IN  /\ last.out.winner \in {user, bot, draw}
            /\ last.out.explanation # "Unexpected matchup"
            /\ a # b => (last.out.winner = user <=> swapped.winner = bot)
            /\ a # b => (last.out.winner = bot <=> swapped.winner = user)
            /\ a = b => last.out.winner = draw

\* The user's bomb has met the bot's rock: the user wins, and the bot would
\* win the swapped pair
C11_Witness ==
    /\ last.op = "resolve_round"
    /\ last.user_move = bomb /\ last.bot_move = rock
    /\ last.out.winner = user
    /\ resolve_round(rock, bomb, last.game_state).winner = bot

\* The beats-relation of the rules: <<x, y>> when x beats y
Beats ==
    { <<rock, scissors>>, <<paper, rock>>, <<scissors, paper>>,
      <<bomb, rock>>, <<bomb, paper>>, <<bomb, scissors>> }

\* C12: resolve_round's winner is the side holding the beating move of the
\* fixed beats-relation (rock beats scissors, paper beats rock, scissors
\* beats paper, bomb beats the three others on either side), and a draw for
\* bomb against bomb and for identical moves.
C12_BeatsRelation ==
    last.op = "resolve_round" =>
        last.out.winner =
            IF <<last.user_move, last.bot_move>> \in Beats THEN user
            ELSE IF <<last.bot_move, last.user_move>> \in Beats THEN bot
            ELSE draw

\* The bot's bomb has destroyed the user's scissors
C12_Witness ==
    /\ last.op = "resolve_round"
    /\ last.user_move = scissors /\ last.bot_move = bomb
    /\ last.out.winner = bot
    /\ last.out.explanation = "Bot's bomb destroys user's move."

C14_RulesRequestNoRound ==
    (/\ last.op = "play_round"
     /\ ~last.game_state.game_over
     /\ \E kw \in { <<"r","u","l","e","s">>, <<"h","e","l","p">>,
                    <<"h","o","w">>, <<"w","h","a","t">>,
                    <<"e","x","p","l","a","i","n">>, <<"?">> } :
            contains(kw, normalize_input(last.user_input)))
    => /\ last.out.state = last.game_state
       /\ stored = last.game_state
       /\ last.out.calls = << >>

\* "how about rock" in a running game: no round is played
C14_Witness ==
    /\ last.op = "play_round"
    /\ last.user_input = <<"h","o","w"," ","a","b","o","u","t"," ","r","o","c","k">>
    /\ extract_move_offline(last.user_input) = rock
    /\ ~last.game_state.game_over
    /\ last.game_state.current_round = 2
    /\ last.out.path = "rules"
    /\ stored = last.game_state

\* C15: in every state of a game the length of round_history equals the
\* number of normally resolved rounds completed so far (rounds whose input
\* passed validation and went through the Round Resolver), and the length
\* never decreases from one call to the next.
C15_HistoryCountsNormalRounds ==
    /\ [](Len(stored.round_history) = rounds.normal)
    /\ [][Len(stored'.round_history) >= Len(stored.round_history)]_vars

\* C16: in every state of a game (normal and penalty rounds alike),
\* user_bomb_used is true exactly when some round_history entry has
\* user_move = bomb, and bot_bomb_used is true exactly when some entry has
\* bot_move = bomb.
C16_BombFlagsMatchHistory ==
    LET h == stored.round_history
    IN  /\ stored.user_bomb_used <=> \E i \in 1..Len(h) : h[i].user_move = bomb
        /\ stored.bot_bomb_used <=> \E i \in 1..Len(h) : h[i].bot_move = bomb

\* The bot has spent its bomb in a penalty round, the user has spent its
\* own in a normal round
C16_Witness ==
    LET h == stored.round_history
    IN  /\ Len(h) = 2
        /\ h[1].user_move = bomb /\ h[1].bot_move # bomb
        /\ h[2].bot_move = bomb
        /\ last.op = "play_round" /\ last.out.path = "invalid"
        /\ stored.user_bomb_used /\ stored.bot_bomb_used

\* C17: bot bomb exclusion.  For every state with bot_bomb_used = true,
\* select_bot_move (every random outcome) and select_bot_move_deterministic
\* (every round number) return rock, paper or scissors; with
\* bot_bomb_used = false they return one of the four canonical moves.
C17_BotBombExclusion ==
    last.op \in {"select_bot_move", "select_bot_move_deterministic"} =>
        IF last.game_state.bot_bomb_used
        THEN last.out \in {rock, paper, scissors}
        ELSE last.out \in {rock, paper, scissors, bomb}

\* With the bomb spent, round number 4 gives the deterministic selector
\* rock, where it gives bomb to a bot that still has it
C17_Witness ==
    /\ last.op = "select_bot_move_deterministic"
    /\ last.game_state.bot_bomb_used
    /\ last.kwargs = [round_number |-> 4]
    /\ last.out = rock
    /\ select_bot_move_deterministic(
            [last.game_state EXCEPT !.bot_bomb_used = FALSE], last.kwargs)
       = bomb

\* C18: the Normalizer on table keys.  For every key k of the synonym table
\* extract_move_offline(k) returns the canonical move the table assigns to
\* k; so each canonical move normalizes to itself, and normalizing an output
\* that is a canonical move again returns the same move.
C18_NormalizerOnKeys ==
    last.op = "extract_move_offline" =>
        /\ \A i \in 1..Len(MOVE_SYNONYMS) :
                last.user_input = MOVE_SYNONYMS[i][1]
                    => last.out = MOVE_SYNONYMS[i][2]
        /\ last.user_input \in {rock, paper, scissors, bomb}
                => last.out = last.user_input
        /\ last.out \in {rock, paper, scissors, bomb}
                => extract_move_offline(last.out) = last.out

\* The key "paper", which holds the earlier keys "r" and "p", gives paper
C18_Witness ==
    /\ last.op = "extract_move_offline"
    /\ last.user_input = paper
    /\ contains(<<"r">>, last.user_input)
    /\ last.out = paper

\* C19: malformed state fails fast.  update_game_state called with a
\* snapshot whose current_round is above the last round of the game signals
\* an error: it returns no next state.
C19_MalformedStateFailsFast ==
    (last.op = "update_game_state" /\ last.game_state.current_round > MAX_ROUNDS)
        => "updated_game_state" \notin DOMAIN last.out

\* C20: unknown operation.  execute_tool called with a name that is none of
\* validate_move, resolve_round and update_game_state returns a result whose
\* only field is "error", and the error names the tool; the result carries
\* no output of a tool, and the game state is the one held before the call.
C20_UnknownOperation ==
    (last.op = "execute_tool" /\ last.name \notin KnownTools) =>
        /\ DOMAIN last.out = {"error"}
        /\ last.out.error = <<"Unknown tool: ", last.name>>
        /\ DOMAIN last.out \cap
              {"is_valid", "normalized_move", "round_winner",
               "updated_game_state"} = {}
        /\ load(_data, session_id) = last.game_state
        /\ last.args.game_state = last.game_state

\* The undispatched tool waste_round called on a game in progress
C20_Witness ==
    /\ last.op = "execute_tool"
    /\ last.name = "waste_round"
    /\ ~last.game_state.game_over
    /\ "error" \in DOMAIN last.out

\* C21: session independence.  With two sessions under different ids in one
\* store, after every interleaving of their whole rounds the stored state of
\* each session is the state it has when run alone with the same inputs and
\* bot moves; and a round of one session leaves the stored state of the
\* other as it was.
C21_SessionIndependence ==
    /\ [](\A sid \in SessionIds : load(_data, sid) = rounds[sid])
    /\ [][\A sid \in SessionIds :
            sid # last'.sid => load(_data', sid) = load(_data, sid)]_vars

\* Session a has just played while session b, already over, holds a
\* different state
C21_Witness ==
    /\ last.op = "play_round"
    /\ last.sid = "session_a"
    /\ last.out.path = "normal"
    /\ _data["session_b"].game_over
    /\ ~_data["session_a"].game_over
    /\ _data["session_a"].round_history # << >>

\* C22: serialization round trip.  For every state s of a game,
\* from_dict(s.to_dict()) has all eight fields equal to those of s, the
\* order and contents of round_history and a null final_winner included;
\* and for its dict d, from_dict(d).to_dict() equals d.
C22_SerializationRoundTrip ==
    last.op = "round_trip" =>
        /\ \A f \in {"current_round", "user_score", "bot_score",
                     "user_bomb_used", "bot_bomb_used", "round_history",
                     "game_over", "final_winner"} :
                last.back[f] = last.state[f]
        /\ Len(last.back.round_history) = Len(last.state.round_history)
        /\ \A i \in 1..Len(last.state.round_history) :
                last.back.round_history[i] = last.state.round_history[i]
        /\ last.state.final_winner = None => last.back.final_winner = None
        /\ last.again = last.dict

\* A state with two different rounds in its history and no winner yet
C22_Witness ==
    /\ last.op = "round_trip"
    /\ Len(last.state.round_history) = 2
    /\ last.state.round_history[1].user_move
            # last.state.round_history[2].user_move
    /\ last.state.final_winner = None
    /\ last.back = last.state

\* C23: the normal path of the updater on a state that is not over.  It
\* appends exactly one RoundResult, numbered with the current_round of the
\* state it was given and holding the two moves and the winner; it adds 1 to
\* user_score exactly when the winner is user and 1 to bot_score exactly
\* when the winner is bot, so a draw changes neither; user_bomb_used is true
\* afterwards exactly when it was true or user_move is bomb, and likewise
\* bot_bomb_used for bot_move.
C23_NormalPathUpdate ==
    (/\ last.op = "update_game_state"
     /\ last.reason = normal
     /\ ~last.game_state.game_over) =>
        LET old == last.game_state
            new == last.out.updated_game_state
            args == last.args
        IN  /\ new.round_history =
                    Append(old.round_history,
                           RoundResult(old.current_round, args.user_move,
                                       args.bot_move, args.round_winner))
            /\ new.user_score = old.user_score
                    + (IF args.round_winner = user THEN 1 ELSE 0)
            /\ new.bot_score = old.bot_score
                    + (IF args.round_winner = bot THEN 1 ELSE 0)
            /\ args.round_winner = draw =>
                    /\ new.user_score = old.user_score
                    /\ new.bot_score = old.bot_score
            /\ new.user_bomb_used
                    <=> (old.user_bomb_used \/ args.user_move = bomb)
            /\ new.bot_bomb_used
                    <=> (old.bot_bomb_used \/ args.bot_move = bomb)

\* Bomb against bomb in round 1: a draw, both flags set, scores 0-0, round 2
C23_Witness ==
    /\ last.op = "update_game_state"
    /\ last.reason = normal
    /\ last.game_state = to_dict(create_new_game)
    /\ last.args.user_move = bomb
    /\ last.args.bot_move = bomb
    /\ last.args.round_winner = draw
    /\ last.out.updated_game_state.user_bomb_used
    /\ last.out.updated_game_state.bot_bomb_used
    /\ last.out.updated_game_state.user_score = 0
    /\ last.out.updated_game_state.bot_score = 0
    /\ last.out.updated_game_state.current_round = 2

\* C24: the bomb flags and game_over are monotonic.  Along every sequence
\* of play_round calls of one game, once user_bomb_used, bot_bomb_used or
\* game_over is true in a returned state it is true in every later one.
C24_MonotonicFlags ==
    [][/\ stored.user_bomb_used => stored'.user_bomb_used
       /\ stored.bot_bomb_used => stored'.bot_bomb_used
       /\ stored.game_over => stored'.game_over]_vars

\* A round played after both bombs were used, and a call on the game
\* that is over
C24_Witness ==
    /\ last.op = "play_round"
    /\ last.game_state.user_bomb_used
    /\ last.game_state.bot_bomb_used
    /\ last.out.path = "normal"
    /\ last.out.user_move # bomb
    /\ last.game_state.current_round = 3
    /\ stored.user_bomb_used
    /\ stored.bot_bomb_used
    /\ stored.game_over

\* The single-letter keys of the synonym table
ShortcutKeys == {<<"r">>, <<"p">>, <<"s">>, <<"b">>}

\* C25: the single-letter shortcuts are exact-match only.  When the cleaned
\* text is not itself a table key, extract_move_offline resolves it to a
\* move only through a longer key it contains: a text that merely contains
\* the letter r, p, s or b is not resolved to that letter's move.
C25_ShortcutsExactOnly ==
    (/\ last.op = "extract_move_offline"
     /\ last.normalized \notin TableKeys
     /\ last.out # unknown) =>
        \E i \in 1..Len(MOVE_SYNONYMS) :
            /\ MOVE_SYNONYMS[i][1] \notin ShortcutKeys
            /\ contains(MOVE_SYNONYMS[i][1], last.normalized)
            /\ MOVE_SYNONYMS[i][2] = last.out

\* C26: the game ends within three rounds.  From a fresh state every
\* play_round call whose text is no rules request adds one to current_round
\* or leaves game_over set; a game has at most MAX_ROUNDS such calls before
\* it is over, and is over after MAX_ROUNDS of them; and a user who does not
\* send rules requests for ever reaches game_over.
C26_TerminatesInThreeRounds ==
    /\ [][last'.out.candidate_move # none =>
            \/ stored'.current_round = stored.current_round + 1
            \/ stored'.game_over]_vars
    /\ [](RoundsPlayed <= MAX_ROUNDS)
    /\ [](RoundsPlayed = MAX_ROUNDS => stored.game_over)
    /\ <>stored.game_over

\* The third round has just been played and ended the game
C26_Witness ==
    /\ last.op = "play_round"
    /\ last.out.candidate_move # none
    /\ ~last.game_state.game_over
    /\ RoundsPlayed = MAX_ROUNDS
    /\ stored.game_over

\* C27: waste_round wastes a round without bot play or score changes.  For
\* every state the returned state has user_score, bot_score, both bomb flags
\* and round_history as they were.  If current_round < 3, current_round is
\* one more and game_over is as it was; if current_round >= 3, current_round
\* is as it was, game_over is true and final_winner is the player with the
\* higher score, or draw when the scores are equal.
C27_WasteRoundFrame ==
    last.op = "waste_round" =>
        LET old == last.game_state
            new == last.out.updated_game_state
        IN  /\ new.user_score = old.user_score
            /\ new.bot_score = old.bot_score
            /\ new.user_bomb_used = old.user_bomb_used
            /\ new.bot_bomb_used = old.bot_bomb_used
            /\ new.round_history = old.round_history
            /\ old.current_round < 3 =>
                    /\ new.current_round = old.current_round + 1
                    /\ new.game_over = old.game_over
            /\ old.current_round >= 3 =>
                    /\ new.current_round = old.current_round
                    /\ new.game_over
                    /\ new.final_winner =
                         IF old.user_score > old.bot_score THEN user
                         ELSE IF old.bot_score > old.user_score THEN bot
                         ELSE draw

\* Round 3 wasted at 1-1: the game ends in a draw
C27_Witness ==
    /\ last.op = "waste_round"
    /\ last.game_state.current_round = 3
    /\ ~last.game_state.game_over
    /\ last.game_state.user_score = 1
    /\ last.game_state.bot_score = 1
    /\ last.out.updated_game_state.game_over
    /\ last.out.updated_game_state.final_winner = draw

\* C28: play_round never mutates the state dict it is given.  After the
\* call the caller's dict and its round_history list hold what they held
\* before; on a path that consumes a round the returned state is another
\* object with another history list; on the terminal and rules-request
\* paths the returned state is the dict that was passed in.
C28_InputNotMutated ==
    last.op = "play_round_at" =>
        /\ \A ref \in 1..Len(last.before) :
                last.out.heap[ref] = last.before[ref]
        /\ value(last.out.heap, last.game_state)
                = value(last.before, last.game_state)
        /\ last.out.path \in {"normal", "invalid"} =>
                /\ last.out.state \notin 1..Len(last.before)
                /\ last.out.heap[last.out.state].round_history
                        \notin 1..Len(last.before)
                /\ last.out.heap[last.out.state].kind = "dict"
        /\ last.out.path \in {"game_over", "rules"} =>
                last.out.state = last.game_state

\* A round played on a dict that already has a history: the dict returned
\* has one entry more, the caller's list has what it had
C28_Witness ==
    /\ last.op = "play_round_at"
    /\ last.out.path = "normal"
    /\ Len(value(last.before, last.game_state).round_history) = 2
    /\ Len(value(last.out.heap, last.game_state).round_history) = 2
    /\ Len(value(last.out.heap, last.out.state).round_history) = 3
    /\ last.out.state # last.game_state

\* The number of rounds of a history won by a player
Wins(history, player) ==
    Cardinality({i \in 1..Len(history) : history[i].winner = player})

\* C29: the scores are accounted for by the history.  In every state
\* reachable from a fresh game by play_round calls, user_score is the number
\* of history entries won by user and bot_score the number won by bot; so
\* user_score <= 2, bot_score <= 2 and user_score + bot_score <= 3.
C29_ScoresMatchHistory ==
    /\ stored.user_score = Wins(stored.round_history, user)
    /\ stored.bot_score = Wins(stored.round_history, bot)
    /\ stored.user_score <= WIN_SCORE
    /\ stored.bot_score <= WIN_SCORE
    /\ stored.user_score + stored.bot_score <= MAX_ROUNDS

\* A game that ends 2-1 after a draw-free third round
C29_Witness ==
    /\ last.op = "play_round"
    /\ last.out.path = "normal"
    /\ stored.game_over
    /\ stored.user_score = 2
    /\ stored.bot_score = 1
    /\ Wins(stored.round_history, user) = 2
    /\ Wins(stored.round_history, bot) = 1

C31_BotMoveLegal ==
    /\ last.op \in {"select_bot_move", "select_bot_move_deterministic"} =>
            LET validation == validate_move(last.out, bot, last.game_state)
            IN  /\ validation.is_valid
                /\ validation.normalized_move = last.out
    /\ (last.op = "play_round" /\ last.out.path \in {"normal", "invalid"}) =>
            /\ last.out.bot_move \in VALID_MOVES
            /\ validate_move(last.out.bot_move, bot, last.game_state).is_valid
            /\ last.out.bot_move = bomb => ~last.game_state.bot_bomb_used

\* The deterministic selector asked for round 4 by a bot that has used its
\* bomb: it answers rock, where bomb would be rejected
C31_Witness ==
    /\ last.op = "select_bot_move_deterministic"
    /\ last.game_state.bot_bomb_used
    /\ last.kwargs = [round_number |-> 4]
    /\ validate_move(last.out, bot, last.game_state).is_valid
    /\ ~validate_move(bomb, bot, last.game_state).is_valid

\* C32: the two ways of wasting a round agree on live games.  For every
\* state of a game that is not over (both scores below 2, current_round in
\* 1..3), waste_round(state) and update_game_state(state, reason="invalid")
\* return the same updated_game_state, and both leave the scores, the bomb
\* flags and round_history as they were.
C32_WastedRoundsAgree ==
    (/\ last.op = "waste_both_ways"
     /\ ~last.game_state.game_over) =>
        LET old == last.game_state
            wasted == last.waste_round.updated_game_state
            updated == last.update_game_state.updated_game_state
        IN  /\ old.user_score < WIN_SCORE /\ old.bot_score < WIN_SCORE
            /\ old.current_round \in 1..MAX_ROUNDS
            /\ wasted = updated
            /\ \A f \in {"user_score", "bot_score", "user_bomb_used",
                         "bot_bomb_used", "round_history"} :
                    wasted[f] = old[f] /\ updated[f] = old[f]

\* Round 3 at 1-1: both end the game in a draw and keep the round number
C32_Witness ==
    /\ last.op = "waste_both_ways"
    /\ ~last.game_state.game_over
    /\ last.game_state.current_round = 3
    /\ last.game_state.user_score = 1
    /\ last.game_state.bot_score = 1
    /\ last.waste_round.updated_game_state.game_over
    /\ last.update_game_state.updated_game_state.final_winner = draw
    /\ last.waste_round.updated_game_state.current_round = 3

=============================================================================
